---------------------------- MODULE Spec2Model ----------------------------
(***************************************************************************)
(* A model of process.py, the polargraph command-stream optimizer.         *)
(*                                                                         *)
(* The script is Python 2 (integer "/" as the step of range() on line 168, *)
(* a StopIteration that ends a generator on lines 70 and 86, None ordered  *)
(* before tuples by sorted() on line 162), and it is modelled with the     *)
(* semantics of CPython 2.7.  Text is modelled as TLA+ strings, character  *)
(* by character: rstrip, split, int and the built-in string hash are       *)
(* computed as CPython computes them.  An uncaught exception ends the run; *)
(* a call that can raise returns Returned(v) or Raised(e).                 *)
(***************************************************************************)
EXTENDS Integers, Sequences, FiniteSets, TLC

(***************************************************************************)
(* Bounds of the model.                                                    *)
(***************************************************************************)
MaxLines == 4
MaxGlyphs == 3

(***************************************************************************)
(* Python values and exceptions.                                           *)
(***************************************************************************)
None == <<>>

Returned(v) == [raised |-> "", value |-> v]

Raised(e) == [raised |-> e]

Abs(n) == IF n < 0 THEN -n ELSE n

Max2(a, b) == IF a >= b THEN a ELSE b

(***************************************************************************)
(* Strings.                                                                *)
(***************************************************************************)
Char(s, i) == SubSeq(s, i, i)

\* The characters str.rstrip() and int() treat as whitespace (isspace in the
\* C locale): space, \t, \n, \v (written raw, code 11), \f and \r.
VerticalTab == ""

Whitespace == {" ", "\t", "\n", VerticalTab, "\f", "\r"}

Digits == "0123456789"

IsDigit(c) == \E i \in 1..10 : Char(Digits, i) = c

DigitValue(c) == (CHOOSE i \in 1..10 : Char(Digits, i) = c) - 1

RECURSIVE rstrip(_)
rstrip(s) ==
    IF Len(s) > 0 /\ Char(s, Len(s)) \in Whitespace
    THEN rstrip(SubSeq(s, 1, Len(s) - 1))
    ELSE s

RECURSIVE lstrip(_)
lstrip(s) ==
    IF Len(s) > 0 /\ Char(s, 1) \in Whitespace
    THEN lstrip(SubSeq(s, 2, Len(s)))
    ELSE s

\* str.split(sep) for a one-character sep: always at least one field.
RECURSIVE SplitFrom(_, _, _, _)
SplitFrom(s, sep, i, start) ==
    IF i > Len(s) THEN << SubSeq(s, start, Len(s)) >>
    ELSE IF Char(s, i) = sep
         THEN << SubSeq(s, start, i - 1) >> \o SplitFrom(s, sep, i + 1, i + 1)
         ELSE SplitFrom(s, sep, i + 1, start)

split(s, sep) == SplitFrom(s, sep, 1, 1)

RECURSIVE DigitsValue(_, _)
DigitsValue(s, acc) ==
    IF Len(s) = 0 THEN acc
    ELSE DigitsValue(SubSeq(s, 2, Len(s)), 10 * acc + DigitValue(Char(s, 1)))

\* int(s), base 10 (PyInt_FromString, PyOS_strtol, PyOS_strtoul): leading
\* whitespace, an optional sign, whitespace again, digits, trailing
\* whitespace; anything else is a ValueError.
int(s) ==
    LET t == rstrip(lstrip(s))
        signed == Len(t) > 0 /\ Char(t, 1) \in {"+", "-"}
        body == IF signed THEN lstrip(SubSeq(t, 2, Len(t))) ELSE t
    IN  IF Len(body) > 0 /\ \A i \in 1..Len(body) : IsDigit(Char(body, i))
        THEN Returned(IF signed /\ Char(t, 1) = "-"
                      THEN -DigitsValue(body, 0) ELSE DigitsValue(body, 0))
        ELSE Raised("ValueError")

(***************************************************************************)
(* class Instruction                                                       *)
(***************************************************************************)
types == [C13 |-> "pendown", C14 |-> "penup", C17 |-> "move"]

_typename(typecode) ==
    IF typecode \in DOMAIN types THEN types[typecode] ELSE "other"

\* parts[1] and parts[2] are evaluated left to right: a missing field is an
\* IndexError, which the except clause does not catch.
_coords(parts) ==
    IF Len(parts) < 2 THEN Raised("IndexError")
    ELSE IF int(parts[2]).raised # "" THEN Returned(None)
    ELSE IF Len(parts) < 3 THEN Raised("IndexError")
    ELSE IF int(parts[3]).raised # "" THEN Returned(None)
    ELSE Returned(<< int(parts[2]).value, int(parts[3]).value >>)

Instruction(line) ==
    LET l == rstrip(line)
        parts == split(l, ",")
        c == _coords(parts)
    IN  IF c.raised # "" THEN Raised(c.raised)
        ELSE Returned([line |-> l, parts |-> parts, typecode |-> parts[1],
                       typename |-> _typename(parts[1]), coords |-> c.value])

Instruction_distance_to(self, other) ==
    IF self.coords = None \/ other.coords = None THEN Raised("TypeError")
    ELSE Returned(Max2(Abs(other.coords[1] - self.coords[1]),
                       Abs(other.coords[2] - self.coords[2])))

(***************************************************************************)
(* class Glyph                                                             *)
(***************************************************************************)
\* id stands for the identity of the Python object: Glyph defines no __eq__,
\* so two glyphs are equal (list.remove) only when they are the same object.
Glyph(instructions, id) ==
    LET n == Len(instructions)
        indexError == n < 2
    IN  [id |-> id,
         start |-> IF indexError THEN None ELSE instructions[1].coords,
         end |-> IF indexError THEN None ELSE instructions[n - 1].coords,
         instructions |-> instructions]

\* What the constructor prints on sys.stderr.
GlyphReport(g) ==
    IF g.start = None \/ g.end = None
    THEN << "Problem with instruction set" >>
         \o [k \in 1..Len(g.instructions) |->
                g.instructions[k].line \o " (" \o g.instructions[k].typename \o ")"]
    ELSE << >>

\* A variant that reads an absent coordinate as the origin.
Glyph_distance_to_origin(self, other) ==
    LET a == IF other.start = None THEN << 0, 0 >> ELSE other.start
        b == IF self.end = None THEN << 0, 0 >> ELSE self.end
    IN  Returned(Max2(Abs(a[1] - b[1]), Abs(a[2] - b[2])))

\* A variant that measures from self.start instead of self.end.
Glyph_distance_to_from_start(self, other) ==
    IF other.start = None \/ self.start = None THEN Raised("TypeError")
    ELSE Returned(Max2(Abs(other.start[1] - self.start[1]),
                       Abs(other.start[2] - self.start[2])))

Glyph_distance_to(self, other) ==
    IF other.start = None \/ self.end = None THEN Raised("TypeError")
    ELSE Returned(Max2(Abs(other.start[1] - self.end[1]),
                       Abs(other.start[2] - self.end[2])))

(***************************************************************************)
(* The built-in hash of a str in CPython 2.7 (string_hash, no -R):         *)
(*   x = ord(s[0]) << 7; for c in s: x = (1000003*x) ^ ord(c);             *)
(*   x ^= len(s); if x == -1: x = -2                                       *)
(* in a C long, whose width depends on the build of the interpreter: 32    *)
(* bits on Windows and on 32-bit platforms, 64 bits elsewhere.  The long   *)
(* is kept as a sequence of 16-bit limbs, least significant first, and     *)
(* LongLimbs is the set of the widths a build can have, in limbs.          *)
(* 1000003 = 15 * 65536 + 16963.                                           *)
(***************************************************************************)
LongLimbs == {2, 4}

\* The ASCII characters 32..95 and 97..126 (a TLA+ string cannot hold the
\* grave accent, 96).
PrintableLow ==
    " !\"#$%&'()*+,-./0123456789:;<=>?@ABCDEFGHIJKLMNOPQRSTUVWXYZ[\\]^_"

PrintableHigh == "abcdefghijklmnopqrstuvwxyz{|}~"

ord(c) ==
    CASE c = "\t" -> 9
      [] c = "\n" -> 10
      [] c = VerticalTab -> 11
      [] c = "\f" -> 12
      [] c = "\r" -> 13
      [] \E i \in 1..Len(PrintableLow) : Char(PrintableLow, i) = c ->
            31 + CHOOSE i \in 1..Len(PrintableLow) : Char(PrintableLow, i) = c
      [] OTHER ->
            96 + CHOOSE i \in 1..Len(PrintableHigh) : Char(PrintableHigh, i) = c

RECURSIVE BitXor(_, _)
BitXor(a, b) ==
    IF a = 0 THEN b
    ELSE IF b = 0 THEN a
    ELSE 2 * BitXor(a \div 2, b \div 2) + ((a + b) % 2)

RECURSIVE MulFrom(_, _, _)
MulFrom(x, j, carry) ==
    IF j > Len(x) THEN << >>
    ELSE LET t == x[j] * 16963 + (IF j > 1 THEN x[j - 1] * 15 ELSE 0) + carry
         IN  << t % 65536 >> \o MulFrom(x, j + 1, t \div 65536)

XorLow(x, v) == [x EXCEPT ![1] = BitXor(@, v)]

RECURSIVE HashFrom(_, _, _)
HashFrom(s, i, x) ==
    IF i > Len(s) \/ Len(x) = 0 THEN x
    ELSE HashFrom(s, i + 1, XorLow(MulFrom(x, 1, 0), ord(Char(s, i))))

\* hash(s) in a long of limbs limbs.
hash(s, limbs) ==
    IF Len(s) = 0 THEN [j \in 1..limbs |-> 0]
    ELSE LET x0 == [j \in 1..limbs |-> IF j = 1 THEN ord(Char(s, 1)) * 128 ELSE 0]
             x == XorLow(HashFrom(s, 1, x0), Len(s))
         IN  IF \A j \in 1..limbs : x[j] = 65535
             THEN [x EXCEPT ![1] = 65534]
             ELSE x

RECURSIVE join(_, _)
join(sep, strs) ==
    IF Len(strs) = 0 THEN ""
    ELSE IF Len(strs) = 1 THEN strs[1]
    ELSE strs[1] \o sep \o join(sep, Tail(strs))

Lines(g) == [k \in 1..Len(g.instructions) |-> g.instructions[k].line]

Glyph_hash(self, limbs) == hash(join("\n", Lines(self)), limbs)

(***************************************************************************)
(* The travel statistics.                                                  *)
(***************************************************************************)
\* sum() over the generator distance_between_each_pair: prev.distance_to(g)
\* for each g after the first; the first exception raised ends the sum.
RECURSIVE distance_between_each_pair(_, _, _)
distance_between_each_pair(gs, k, acc) ==
    IF k > Len(gs) THEN Returned(acc)
    ELSE LET d == Glyph_distance_to(gs[k - 1], gs[k])
         IN  IF d.raised # "" THEN Raised(d.raised)
             ELSE distance_between_each_pair(gs, k + 1, acc + d.value)

\* next(gs) on an empty sequence raises StopIteration inside the generator,
\* which in Python 2 ends the generator: the sum is 0.
total_penup_travel(gs) ==
    IF Len(gs) = 0 THEN Returned(0)
    ELSE distance_between_each_pair(gs, 2, 0)

RECURSIVE iter_moves(_)
iter_moves(gs) ==
    IF Len(gs) = 0 THEN << >>
    ELSE SelectSeq(gs[1].instructions, LAMBDA i : i.typename = "move")
         \o iter_moves(Tail(gs))

RECURSIVE distance_between_moves(_, _, _)
distance_between_moves(moves, k, acc) ==
    IF k > Len(moves) THEN Returned(acc)
    ELSE LET d == Instruction_distance_to(moves[k - 1], moves[k])
         IN  IF d.raised # "" THEN Raised(d.raised)
             ELSE distance_between_moves(moves, k + 1, acc + d.value)

total_travel(gs) ==
    LET moves == iter_moves(gs)
    IN  IF Len(moves) = 0 THEN Returned(0)
        ELSE distance_between_moves(moves, 2, 0)

(***************************************************************************)
(* reorder_greedy                                                          *)
(***************************************************************************)
\* min(gs, key=prev.distance_to): the keys are computed in list order, and
\* the first item with the least key is returned.
RECURSIVE KeysFrom(_, _, _)
KeysFrom(gs, k, prev) ==
    IF k > Len(gs) THEN Returned(<< >>)
    ELSE LET d == Glyph_distance_to(prev, gs[k])
         IN  IF d.raised # "" THEN Raised(d.raised)
             ELSE LET rest == KeysFrom(gs, k + 1, prev)
                  IN  IF rest.raised # "" THEN Raised(rest.raised)
                      ELSE Returned(<< d.value >> \o rest.value)

\* A variant that returns the last item with the least key.
MinIndex_last(keys) ==
    CHOOSE k \in 1..Len(keys) :
        /\ \A j \in 1..Len(keys) : keys[k] <= keys[j]
        /\ \A j \in (k + 1)..Len(keys) : keys[j] > keys[k]

MinIndex(keys) ==
    CHOOSE k \in 1..Len(keys) :
        /\ \A j \in 1..Len(keys) : keys[k] <= keys[j]
        /\ \A j \in 1..(k - 1) : keys[j] > keys[k]

\* list.remove(x): the first item equal to x, that is, the same object.
ListRemove(gs, obj) ==
    LET k == CHOOSE k \in 1..Len(gs) :
                 gs[k].id = obj.id /\ \A j \in 1..(k - 1) : gs[j].id # obj.id
    IN  SubSeq(gs, 1, k - 1) \o SubSeq(gs, k + 1, Len(gs))

RECURSIVE GreedyLoop(_, _, _)
GreedyLoop(gs, ordered, prev) ==
    IF Len(gs) = 0 THEN Returned(ordered)
    ELSE LET keys == KeysFrom(gs, 1, prev)
         IN  IF keys.raised # "" THEN Raised(keys.raised)
             ELSE LET nearest == gs[MinIndex(keys.value)]
                  IN  GreedyLoop(ListRemove(gs, nearest),
                                 Append(ordered, nearest), nearest)

\* A variant that reads gs[index] without popping it.
reorder_greedy_keep(gs, index) ==
    LET n == Len(gs)
        k == IF index < 0 THEN index + n + 1 ELSE index + 1
    IN  IF k < 1 \/ k > n THEN Raised("IndexError")
        ELSE GreedyLoop(gs, << gs[k] >>, gs[k])

\* list.pop(index): a negative index counts from the end.
reorder_greedy(gs, index) ==
    LET n == Len(gs)
        k == IF index < 0 THEN index + n + 1 ELSE index + 1
    IN  IF k < 1 \/ k > n THEN Raised("IndexError")
        ELSE GreedyLoop(SubSeq(gs, 1, k - 1) \o SubSeq(gs, k + 1, n),
                        << gs[k] >>, gs[k])

(***************************************************************************)
(* dedupe, the sort by start, print_glyphs                                 *)
(***************************************************************************)
\* limbs is the width of the long that hash(g) is computed in.
RECURSIVE DedupeFrom(_, _, _, _)
DedupeFrom(gs, k, seen, limbs) ==
    IF k > Len(gs) THEN << >>
    ELSE LET h == Glyph_hash(gs[k], limbs)
         IN  IF h \notin seen
             THEN << gs[k] >> \o DedupeFrom(gs, k + 1, seen \cup {h}, limbs)
             ELSE DedupeFrom(gs, k + 1, seen, limbs)

dedupe(gs, limbs) == DedupeFrom(gs, 1, {}, limbs)

\* Python 2 orders None before every tuple, and tuples lexicographically.
StartLess(a, b) ==
    IF a = None THEN b # None
    ELSE IF b = None THEN FALSE
    ELSE a[1] < b[1] \/ (a[1] = b[1] /\ a[2] < b[2])

\* sorted(glyphs, key=attrgetter('start')) is stable.
RECURSIVE InsertByStart(_, _)
InsertByStart(sortedGs, g) ==
    IF Len(sortedGs) = 0 THEN << g >>
    ELSE IF StartLess(g.start, sortedGs[Len(sortedGs)].start)
         THEN Append(InsertByStart(SubSeq(sortedGs, 1, Len(sortedGs) - 1), g),
                     sortedGs[Len(sortedGs)])
         ELSE Append(sortedGs, g)

RECURSIVE sorted_by_start(_)
sorted_by_start(gs) ==
    IF Len(gs) = 0 THEN << >>
    ELSE InsertByStart(sorted_by_start(SubSeq(gs, 1, Len(gs) - 1)), gs[Len(gs)])

RECURSIVE GlyphLines(_)
GlyphLines(gs) ==
    IF Len(gs) = 0 THEN << >> ELSE Lines(gs[1]) \o GlyphLines(Tail(gs))

\* The lines print_glyphs writes on sys.stdout.
print_glyphs(gs) == << "C14,END" >> \o GlyphLines(gs)

(***************************************************************************)
(* The segmentation loop, one iteration: seg is [glyphs, chunk, stderr].   *)
(***************************************************************************)
\* A variant that resets the chunk only when it closes a glyph.
segment_step_keep_penup(seg, inst) ==
    LET chunk == Append(seg.chunk, inst)
        g == Glyph(chunk, Len(seg.glyphs) + 1)
    IN  IF inst.typename = "penup" /\ Len(chunk) > 1
        THEN [glyphs |-> Append(seg.glyphs, g), chunk |-> << >>,
              stderr |-> seg.stderr \o GlyphReport(g)]
        ELSE [seg EXCEPT !.chunk = chunk]

\* A variant that closes a glyph on every pen-up (len(chunk) >= 1).
segment_step_lone_penup(seg, inst) ==
    LET chunk == Append(seg.chunk, inst)
        g == Glyph(chunk, Len(seg.glyphs) + 1)
    IN  IF inst.typename = "penup"
        THEN [glyphs |-> Append(seg.glyphs, g), chunk |-> << >>,
              stderr |-> seg.stderr \o GlyphReport(g)]
        ELSE [seg EXCEPT !.chunk = chunk]

segment_step(seg, inst) ==
    LET chunk == Append(seg.chunk, inst)
        g == Glyph(chunk, Len(seg.glyphs) + 1)
    IN  IF inst.typename = "penup"
        THEN IF Len(chunk) > 1
             THEN [glyphs |-> Append(seg.glyphs, g), chunk |-> << >>,
                   stderr |-> seg.stderr \o GlyphReport(g)]
             ELSE [seg EXCEPT !.chunk = << >>]
        ELSE [seg EXCEPT !.chunk = chunk]

RECURSIVE SegmentFrom(_, _, _)
SegmentFrom(instructions, k, seg) ==
    IF k > Len(instructions) \/ Len(seg.chunk) < 0 THEN seg
    ELSE SegmentFrom(instructions, k + 1, segment_step(seg, instructions[k]))

\* The whole loop over an instruction list.
segment(instructions) ==
    SegmentFrom(instructions, 1, [glyphs |-> << >>, chunk |-> << >>, stderr |-> << >>])

(***************************************************************************)
(* The two statistics of an ordering as the script prints them on          *)
(* sys.stderr: the first exception ends the run after what was printed.    *)
(***************************************************************************)
report_travel(gs, penupLabel, totalLabel) ==
    LET p == total_penup_travel(gs)
        t == total_travel(gs)
    IN  IF p.raised # "" THEN [lines |-> << >>, raised |-> p.raised]
        ELSE IF t.raised # ""
             THEN [lines |-> << penupLabel \o ToString(p.value) >>, raised |-> t.raised]
             ELSE [lines |-> << penupLabel \o ToString(p.value),
                                totalLabel \o ToString(t.value) >>,
                   raised |-> ""]

(***************************************************************************)
(* The inputs.                                                             *)
(***************************************************************************)
\* len(glyphs) / 15 is the step of the probe loop.
ProbeDivisor == 15

\* Lines of a recorded file.  The glyphs of the first two lines, each
\* closed by "C14,END", have the same string hash in a 64-bit long, and so
\* in a 32-bit long too.  The third line has whitespace after a sign,
\* before a number and at its end.
LineSamples ==
    { "C17,1789995,141171,2327362,END\n", "C17,274567,2015547,395423,END\n",
      "C17,+ 0,0,2,END \r\n",
      "C14,END\n", "C13,END\n", "C14\n" }

ShortInputs == UNION { [1..n -> LineSamples] : n \in 0..MaxLines }

\* Two glyphs whose string hashes are equal in a 32-bit long only.
NarrowCollisionInputs ==
    { << "C17,119,43\n", "C14,END\n", "C17,367,410\n", "C14,END\n" >>,
      << "C17,367,410\n", "C14,END\n", "C17,119,43\n", "C14,END\n" >> }

\* n distinct one-move glyphs, then the first d of them again; lead is put
\* before the first line.
RECURSIVE MoveGlyphs(_, _)
MoveGlyphs(from, to) ==
    IF from > to THEN << >>
    ELSE << "C17," \o ToString(((7 * from) % 17) * 10) \o ","
              \o ToString((from % 3) * 10) \o "\n",
            "C14,END\n" >>
         \o MoveGlyphs(from + 1, to)

LongInput(n, d, lead) == lead \o MoveGlyphs(1, n) \o MoveGlyphs(1, d)

LongInputs ==
    { LongInput(n, d, lead) :
        n \in (ProbeDivisor - 1)..(ProbeDivisor + 1), d \in 0..1,
        lead \in { << >>, << "C13,END\n" >> } }

\* Glyph lists for direct calls of reorder_greedy and total_penup_travel.
ChunkSamples ==
    { << "C17,0,0", "C14,END" >>,
      << "C17,10,0", "C14,END" >>,
      << "C17,5,5", "C14,END" >>,
      << "C17,0,0", "C17,10,5", "C14,END" >>,
      << "C13,END", "C17,5,5", "C14,END" >>,
      << "C17,5,5", "C13,END", "C14,END" >> }

GlyphOf(chunkLines, id) ==
    Glyph([k \in 1..Len(chunkLines) |-> Instruction(chunkLines[k]).value], id)

GlyphLists ==
    { [k \in 1..Len(cs) |-> GlyphOf(cs[k], k)] :
        cs \in UNION { [1..n -> ChunkSamples] : n \in 0..MaxGlyphs } }

Pending == [raised |-> "pending"]

(***************************************************************************)
(* The state.                                                              *)
(***************************************************************************)
VARIABLES
    pc,            \* where the script is
    exc,           \* the uncaught exception that ended it, or ""
    input,         \* the lines fileinput has not yet delivered
    instructions,  \* the module's list of Instruction objects
    glyphs,        \* the module's list of Glyph objects
    chunk,         \* the segmentation loop's open chunk
    pos,           \* the segmentation loop's position in instructions
    stdout,        \* lines written on sys.stdout
    stderr,        \* lines written on sys.stderr
    longLimbs,     \* the width of the interpreter's C long, in 16-bit limbs
    call,          \* a direct call: [gs, index]
    ordered,       \* what reorder_greedy(call.gs, call.index) returned
    travel,        \* what total_penup_travel(call.gs) returned
    travelOrdered  \* what total_penup_travel(ordered) returned

script == << pc, exc, input, instructions, glyphs, chunk, pos, stdout, stderr >>

calls == << call, ordered, travel, travelOrdered >>

vars == << pc, exc, input, instructions, glyphs, chunk, pos, stdout, stderr,
           longLimbs, call, ordered, travel, travelOrdered >>

NoCall ==
    /\ call = [gs |-> << >>, index |-> 0]
    /\ ordered = Pending
    /\ travel = Pending
    /\ travelOrdered = Pending

ScriptAt(p) ==
    /\ pc = p
    /\ exc = ""
    /\ input = << >>
    /\ instructions = << >>
    /\ glyphs = << >>
    /\ chunk = << >>
    /\ pos = 1
    /\ stdout = << >>
    /\ stderr = << >>

(***************************************************************************)
(* The script, lines 132-174.                                              *)
(***************************************************************************)
Init ==
    /\ pc = "read"
    /\ exc = ""
    /\ input \in ShortInputs \cup LongInputs \cup NarrowCollisionInputs
    /\ longLimbs \in LongLimbs
    /\ instructions = << >>
    /\ glyphs = << >>
    /\ chunk = << >>
    /\ pos = 1
    /\ stdout = << >>
    /\ stderr = << >>
    /\ NoCall

Crash(e, errLines) ==
    /\ pc' = "crashed"
    /\ exc' = e
    /\ stderr' = stderr \o errLines

\* for line in fileinput.input(): instructions.append(Instruction(line))
ReadLine ==
    /\ pc = "read"
    /\ Len(input) > 0
    /\ LET i == Instruction(Head(input))
       IN  IF i.raised # ""
           THEN /\ Crash(i.raised, << >>)
                /\ UNCHANGED << input, instructions >>
           ELSE /\ instructions' = Append(instructions, i.value)
                /\ input' = Tail(input)
                /\ UNCHANGED << pc, exc, stderr >>
    /\ UNCHANGED << glyphs, chunk, pos, stdout >>
    /\ UNCHANGED << calls, longLimbs >>

\* End of input: glyphs = []; chunk = []
EndOfInput ==
    /\ pc = "read"
    /\ Len(input) = 0
    /\ pc' = "segment"
    /\ glyphs' = << >>
    /\ chunk' = << >>
    /\ pos' = 1
    /\ UNCHANGED << exc, input, instructions, stdout, stderr >>
    /\ UNCHANGED << calls, longLimbs >>

\* for inst in instructions: one iteration
SegmentStep ==
    /\ pc = "segment"
    /\ pos <= Len(instructions)
    /\ LET seg == segment_step([glyphs |-> glyphs, chunk |-> chunk, stderr |-> stderr],
                               instructions[pos])
       IN  /\ glyphs' = seg.glyphs
           /\ chunk' = seg.chunk
           /\ stderr' = seg.stderr
    /\ pos' = pos + 1
    /\ UNCHANGED << pc, exc, input, instructions, stdout >>
    /\ UNCHANGED << calls, longLimbs >>

\* A block of prints of the two statistics of gs, then on to pc = next.
Report(before, gs, penupLabel, totalLabel, next) ==
    LET r == report_travel(gs, penupLabel, totalLabel)
    IN  IF r.raised # ""
        THEN Crash(r.raised, before \o r.lines)
        ELSE /\ pc' = next
             /\ stderr' = stderr \o before \o r.lines
             /\ exc' = exc

\* Lines 147-151.
ReportInitial ==
    /\ pc = "segment"
    /\ pos > Len(instructions)
    /\ Report(<< "Total Glyphs: " \o ToString(Len(glyphs)) >>, glyphs,
              "Initial penup distance: ", "Initial total distance: ", "dedupe")
    /\ UNCHANGED << input, instructions, glyphs, chunk, pos, stdout >>
    /\ UNCHANGED << calls, longLimbs >>

\* Lines 154-156.
Dedupe ==
    /\ pc = "dedupe"
    /\ glyphs' = dedupe(glyphs, longLimbs)
    /\ Report(<< >>, dedupe(glyphs, longLimbs),
              "Deduped penup distance: ", "Deduped total distance: ", "sort")
    /\ UNCHANGED << input, instructions, chunk, pos, stdout >>
    /\ UNCHANGED << calls, longLimbs >>

\* Lines 162-164.
SortByStart ==
    /\ pc = "sort"
    /\ Report(<< >>, sorted_by_start(glyphs),
              "Sorted penup distance:  ", "Sorted total distance: ", "greedy")
    /\ UNCHANGED << input, instructions, glyphs, chunk, pos, stdout >>
    /\ UNCHANGED << calls, longLimbs >>

\* Lines 168-174: range(0, n, n / 15) raises ValueError for a step of 0;
\* otherwise its first item is 0, and the body ends in sys.exit().
GreedyProbe ==
    /\ pc = "greedy"
    /\ LET n == Len(glyphs)
           step == n \div ProbeDivisor
           greedy == reorder_greedy(glyphs, 0)
       IN  IF step = 0
           THEN Crash("ValueError", << >>) /\ UNCHANGED stdout
           ELSE IF greedy.raised # ""
           THEN Crash(greedy.raised, << >>) /\ UNCHANGED stdout
           ELSE LET r == report_travel(greedy.value, "Greedy penup (i=0) ",
                                       "Greedy total (i=0) ")
                IN  IF r.raised # ""
                    THEN Crash(r.raised, r.lines) /\ UNCHANGED stdout
                    ELSE /\ stderr' = stderr \o r.lines
                         /\ stdout' = stdout \o print_glyphs(greedy.value)
                         /\ pc' = "exited"
                         /\ exc' = exc
    /\ UNCHANGED << input, instructions, glyphs, chunk, pos >>
    /\ UNCHANGED << calls, longLimbs >>

Next ==
    \/ ReadLine
    \/ EndOfInput
    \/ SegmentStep
    \/ ReportInitial
    \/ Dedupe
    \/ SortByStart
    \/ GreedyProbe

Spec == Init /\ [][Next]_vars

(***************************************************************************)
(* Direct calls of reorder_greedy and total_penup_travel.                  *)
(***************************************************************************)
InitCalls ==
    /\ ScriptAt("library")
    /\ longLimbs \in LongLimbs
    /\ \E gs \in GlyphLists :
         \E index \in 0..(IF Len(gs) = 0 THEN 0 ELSE Len(gs) - 1) :
            call = [gs |-> gs, index |-> index]
    /\ ordered = Pending
    /\ travel = Pending
    /\ travelOrdered = Pending

CallReorderGreedy ==
    /\ ordered = Pending
    /\ ordered' = reorder_greedy(call.gs, call.index)
    /\ UNCHANGED << call, travel, travelOrdered >>
    /\ UNCHANGED << script, longLimbs >>

CallTotalPenupTravel ==
    /\ travel = Pending
    /\ travel' = total_penup_travel(call.gs)
    /\ UNCHANGED << call, ordered, travelOrdered >>
    /\ UNCHANGED << script, longLimbs >>

CallTotalPenupTravelOrdered ==
    /\ ordered.raised = ""
    /\ travelOrdered = Pending
    /\ travelOrdered' = total_penup_travel(ordered.value)
    /\ UNCHANGED << call, ordered, travel >>
    /\ UNCHANGED << script, longLimbs >>

NextCalls ==
    \/ CallReorderGreedy
    \/ CallTotalPenupTravel
    \/ CallTotalPenupTravelOrdered

SpecCalls == InitCalls /\ [][NextCalls]_vars

(***************************************************************************)
(* What the claims are stated with.                                        *)
(***************************************************************************)
Range(seq) == { seq[k] : k \in 1..Len(seq) }

Count(seq, v) == Cardinality({ k \in 1..Len(seq) : seq[k] = v })

IsPermutationOf(a, b) ==
    /\ Len(a) = Len(b)
    /\ \A v \in Range(a) \cup Range(b) : Count(a, v) = Count(b, v)

Chebyshev(p, q) ==
    LET dx == IF p[1] >= q[1] THEN p[1] - q[1] ELSE q[1] - p[1]
        dy == IF p[2] >= q[2] THEN p[2] - q[2] ELSE q[2] - p[2]
    IN  IF dx >= dy THEN dx ELSE dy

WellFormed(g) == g.start # None /\ g.end # None

AllWellFormed(gs) == \A k \in 1..Len(gs) : WellFormed(gs[k])

Ids(gs) == [k \in 1..Len(gs) |-> gs[k].id]

LinesOf(gs) == [k \in 1..Len(gs) |-> Lines(gs[k])]

\* The fixture of the spec: start = end at (0,0), (10,0), (5,5).
IsFixture(gs, order) ==
    /\ Len(gs) = 3
    /\ \A k \in 1..3 : gs[k].start = gs[k].end
    /\ gs[order[1]].start = << 0, 0 >>
    /\ gs[order[2]].start = << 10, 0 >>
    /\ gs[order[3]].start = << 5, 5 >>

Called == ordered.raised # "pending"

(***************************************************************************)
(* C1.  As stated: for every non-empty glyph list and every start_index in *)
(* range, reorder_greedy returns a permutation of the list (same length,   *)
(* same glyph objects) whose element 0 is the glyph at start_index.        *)
(***************************************************************************)
C1_PermutationOfAnyList ==
    (Called /\ Len(call.gs) > 0) =>
        /\ ordered.raised = ""
        /\ IsPermutationOf(ordered.value, call.gs)
        /\ ordered.value[1] = call.gs[call.index + 1]

\* C1 as amended: the same, for every non-empty list of glyphs whose start
\* and end coordinates are all present.
C1_PermutationOfWellFormedList ==
    (Called /\ Len(call.gs) > 0 /\ AllWellFormed(call.gs)) =>
        /\ ordered.raised = ""
        /\ IsPermutationOf(ordered.value, call.gs)
        /\ ordered.value[1] = call.gs[call.index + 1]

C1_Witness ==
    /\ Called
    /\ AllWellFormed(call.gs)
    /\ Len(call.gs) = MaxGlyphs
    /\ call.index > 0
    /\ ordered.raised = ""
    /\ \E k \in 2..Len(call.gs) : ordered.value[k].id > ordered.value[k - 1].id + 1

(***************************************************************************)
(* C2.  In the result of reorder_greedy every element after the first is,  *)
(* among the glyphs not yet placed, the first in input order that          *)
(* minimizes max(|dx|,|dy|) from the previous element's end to its start;  *)
(* the fixture with start_index 0 gives [G1, G3, G2].                      *)
(***************************************************************************)
Unplaced(gs, result, k) ==
    SelectSeq(gs, LAMBDA g : \A j \in 1..(k - 1) : result[j].id # g.id)

IsNearestFirst(gs, result, k) ==
    LET rest == Unplaced(gs, result, k)
        from == result[k - 1].end
        m == CHOOSE m \in 1..Len(rest) : rest[m].id = result[k].id
    IN  /\ \E n \in 1..Len(rest) : rest[n].id = result[k].id
        /\ \A n \in 1..Len(rest) :
              Chebyshev(from, rest[m].start) <= Chebyshev(from, rest[n].start)
        /\ \A n \in 1..(m - 1) :
              Chebyshev(from, rest[n].start) > Chebyshev(from, rest[m].start)

C2_NearestUnplacedFirstOnTies ==
    (Called /\ ordered.raised = "") =>
        /\ \A k \in 2..Len(ordered.value) : IsNearestFirst(call.gs, ordered.value, k)
        /\ (IsFixture(call.gs, << 1, 2, 3 >>) /\ call.index = 0)
              => Ids(ordered.value) = << 1, 3, 2 >>

\* A step at which two unplaced glyphs tie for the least distance.
C2_Witness ==
    /\ Called
    /\ ordered.raised = ""
    /\ \E k \in 2..Len(ordered.value) :
          LET rest == Unplaced(call.gs, ordered.value, k)
              from == ordered.value[k - 1].end
          IN  \E n \in 1..Len(rest) :
                 /\ rest[n].id # ordered.value[k].id
                 /\ Chebyshev(from, rest[n].start)
                       = Chebyshev(from, ordered.value[k].start)

(***************************************************************************)
(* C9.  For every ordering of n >= 1 well-formed glyphs,                   *)
(* total_penup_travel returns the sum over consecutive pairs of            *)
(* max(|dx|,|dy|) from one glyph's end to the next one's start (0 for one  *)
(* glyph) and leaves the ordering and the glyphs unchanged; the fixture    *)
(* gives 15 in the order [G1,G2,G3] and 10 in the order [G1,G3,G2].        *)
(***************************************************************************)
RECURSIVE PairSum(_, _)
PairSum(gs, n) ==
    IF n < 2 THEN 0
    ELSE PairSum(gs, n - 1) + Chebyshev(gs[n - 1].end, gs[n].start)

C9_TravelIsSumOfPairs ==
    [][ (travel.raised = "pending" /\ travel'.raised # "pending"
            /\ Len(call.gs) >= 1 /\ AllWellFormed(call.gs)) =>
          /\ travel' = Returned(PairSum(call.gs, Len(call.gs)))
          /\ call' = call
          /\ IsFixture(call.gs, << 1, 2, 3 >>) => travel'.value = 15
          /\ IsFixture(call.gs, << 1, 3, 2 >>) => travel'.value = 10
          /\ Len(call.gs) = 1 => travel'.value = 0 ]_vars

C9_Witness ==
    /\ travel.raised = ""
    /\ IsFixture(call.gs, << 1, 2, 3 >>)
    /\ travel.value = 15
    /\ travelOrdered.raised = ""
    /\ travelOrdered.value = 10

(***************************************************************************)
(* The script's claims.                                                    *)
(***************************************************************************)
Finished == pc \in {"exited", "crashed"}

\* The loop over instructions has ended and glyphs is still its result.
Segmented == (pc = "segment" /\ pos > Len(instructions)) \/ pc = "dedupe"

PenUps(instrs) == { j \in 1..Len(instrs) : instrs[j].typename = "penup" }

\* Where the run that the pen-up at j closes begins.
RunStart(instrs, j) ==
    LET before == { k \in PenUps(instrs) : k < j }
    IN  IF before = {} THEN 1
        ELSE 1 + CHOOSE k \in before : \A m \in before : m <= k

\* The pen-ups with at least one instruction before them in their run.
Closing(instrs) == { j \in PenUps(instrs) : RunStart(instrs, j) < j }

ExpectedRuns(instrs) ==
    LET closing == Closing(instrs)
        nth(k) == CHOOSE j \in closing :
                     Cardinality({ i \in closing : i < j }) = k - 1
    IN  [k \in 1..Cardinality(closing) |->
            SubSeq(instrs, RunStart(instrs, nth(k)), nth(k))]

InstructionsOf(gs) == [k \in 1..Len(gs) |-> gs[k].instructions]

(***************************************************************************)
(* C4.  Segmentation yields, in recorded order, exactly one glyph for each *)
(* pen-up that has at least one instruction before it since the previous   *)
(* pen-up (or the start), made of those instructions and the closing        *)
(* pen-up; a pen-up with nothing before it yields no glyph and what follows *)
(* the last pen-up is in no glyph.  So every glyph has at least 2           *)
(* instructions, ends in a pen-up and holds no other pen-up.  Stated for    *)
(* every prefix the loop has consumed.                                      *)
(***************************************************************************)
C4_GlyphsAreThePenUpRuns ==
    (pc = "segment" \/ pc = "dedupe") =>
        LET done == SubSeq(instructions, 1, pos - 1)
        IN  /\ InstructionsOf(glyphs) = ExpectedRuns(done)
            /\ \A k \in 1..Len(glyphs) :
                  LET is == glyphs[k].instructions
                  IN  /\ Len(is) >= 2
                      /\ is[Len(is)].typename = "penup"
                      /\ \A j \in 1..(Len(is) - 1) : is[j].typename # "penup"

\* A lone pen-up was dropped, a glyph was made, and a trailing chunk is left.
C4_Witness ==
    /\ pc = "segment"
    /\ pos > Len(instructions)
    /\ Len(glyphs) >= 1
    /\ Cardinality(PenUps(instructions)) > Len(glyphs)
    /\ Len(chunk) > 0

(***************************************************************************)
(* C10.  Segmenting is idempotent across emission: for the glyphs the       *)
(* segmenter produced, in any ordering, segmenting the emitted stream (the  *)
(* line C14,END, then the glyphs' raw lines) yields as many glyphs with the *)
(* same raw lines in the same order; the sentinel adds no glyph.            *)
(***************************************************************************)
\* The lines written by print(), read back by fileinput.
ReadBack(out) == [k \in 1..Len(out) |-> Instruction(out[k] \o "\n")]

Resegmented(out) ==
    segment([k \in 1..Len(out) |-> ReadBack(out)[k].value])

Reverse(seq) == [k \in 1..Len(seq) |-> seq[Len(seq) + 1 - k]]

Orderings(gs) ==
    IF Len(gs) <= MaxGlyphs
    THEN { [k \in 1..Len(gs) |-> gs[f[k]]] :
             f \in { f \in [1..Len(gs) -> 1..Len(gs)] :
                       \A i, j \in 1..Len(gs) : f[i] = f[j] => i = j } }
    ELSE { gs, Reverse(gs), sorted_by_start(gs) }

ReproducedBy(out, gs) ==
    /\ \A k \in 1..Len(out) : ReadBack(out)[k].raised = ""
    /\ Len(Resegmented(out).glyphs) = Len(gs)
    /\ LinesOf(Resegmented(out).glyphs) = LinesOf(gs)
    /\ Resegmented(out).chunk = << >>

C10_ResegmentingEmissionIsIdentity ==
    /\ Segmented => \A gs \in Orderings(glyphs) : ReproducedBy(print_glyphs(gs), gs)
    /\ pc = "exited" =>
          /\ \A k \in 1..Len(stdout) : ReadBack(stdout)[k].raised = ""
          /\ Len(Resegmented(stdout).glyphs) = Len(glyphs)
          /\ GlyphLines(Resegmented(stdout).glyphs) = Tail(stdout)

C10_Witness ==
    /\ Segmented
    /\ Len(glyphs) >= 2
    /\ Lines(glyphs[1]) # Lines(glyphs[2])

(***************************************************************************)
(* C3.  dedupe drops a glyph if and only if an earlier glyph has the same   *)
(* sequence of raw lines: it keeps exactly the first occurrence of each     *)
(* distinct sequence, in input order, also when hash values collide.        *)
(***************************************************************************)
FirstOccurrences(gs) ==
    SelectSeq(gs, LAMBDA g :
        \A h \in Range(gs) : (h.id < g.id) => Lines(h) # Lines(g))

C3_DedupeKeepsFirstOccurrences ==
    pc \in {"sort", "greedy", "exited"} =>
        glyphs = FirstOccurrences(segment(instructions).glyphs)

(***************************************************************************)
(* C5.  When the input yields no glyph, the script runs to completion       *)
(* without an error, its command stream is the single line C14,END, and     *)
(* the travel statistics it reports are 0.                                  *)
(***************************************************************************)
EndsIn(line, suffix) ==
    /\ Len(line) >= Len(suffix)
    /\ SubSeq(line, Len(line) - Len(suffix) + 1, Len(line)) = suffix

C5_NoGlyphsCompletes ==
    (Finished /\ Len(input) = 0 /\ Len(segment(instructions).glyphs) = 0) =>
        /\ pc = "exited"
        /\ exc = ""
        /\ stdout = << "C14,END" >>
        /\ \A k \in 1..Len(stderr) : EndsIn(stderr[k], " 0")

(***************************************************************************)
(* C6.  The command stream is the line C14,END followed by the raw lines    *)
(* of the deduplicated glyphs in greedy order, glyph by glyph, and nothing  *)
(* else.  Stated for the inputs that were read to the end and hold a glyph. *)
(***************************************************************************)
C6_StreamIsSentinelThenGreedyOrder ==
    (Finished /\ Len(input) = 0 /\ Len(segment(instructions).glyphs) >= 1) =>
        /\ pc = "exited"
        /\ reorder_greedy(glyphs, 0).raised = ""
        /\ stdout = << "C14,END" >> \o GlyphLines(reorder_greedy(glyphs, 0).value)

(***************************************************************************)
(* C7.  Parsing a line never raises: every line becomes an Instruction      *)
(* whose coords is the pair (field 1, field 2) when both are integers and   *)
(* None otherwise, lines with fewer than three fields included.             *)
(***************************************************************************)
FieldInt(parts, k) == k <= Len(parts) /\ int(parts[k]).raised = ""

C7_ParserNeverRaises ==
    /\ pc = "crashed" => Len(input) = 0
    /\ \A k \in 1..Len(instructions) :
          LET i == instructions[k]
          IN  IF FieldInt(i.parts, 2) /\ FieldInt(i.parts, 3)
              THEN i.coords = << int(i.parts[2]).value, int(i.parts[3]).value >>
              ELSE i.coords = None

(***************************************************************************)
(* C8.  A glyph whose start or end is absent is reported on stderr and      *)
(* segmentation goes on; a distance that needs an absent coordinate (of a   *)
(* glyph or of a move) raises, so no statistic is printed that was computed *)
(* from an absent coordinate.                                               *)
(***************************************************************************)
HasLine(prefix) ==
    \E k \in 1..Len(stderr) :
        /\ Len(stderr[k]) >= Len(prefix)
        /\ SubSeq(stderr[k], 1, Len(prefix)) = prefix

\* stderr holds the report of glyph g: the header, then its lines.
IsReported(g) ==
    \E k \in 1..Len(stderr) :
        /\ stderr[k] = "Problem with instruction set"
        /\ k + Len(g.instructions) <= Len(stderr)
        /\ \A j \in 1..Len(g.instructions) :
              stderr[k + j] = g.instructions[j].line \o " ("
                                 \o g.instructions[j].typename \o ")"

\* The coordinates the inter-glyph travel of gs reads.
PenupDefined(gs) ==
    \A k \in 2..Len(gs) : gs[k - 1].end # None /\ gs[k].start # None

\* The coordinates the total travel of gs reads.
MovesDefined(gs) ==
    Len(iter_moves(gs)) >= 2 =>
        \A k \in 1..Len(iter_moves(gs)) : iter_moves(gs)[k].coords # None

C8_AbsentCoordinatesReportedAndNeverMeasured ==
    /\ (pc = "segment" \/ pc = "dedupe") =>
          /\ exc = ""
          /\ \A k \in 1..Len(glyphs) : ~WellFormed(glyphs[k]) => IsReported(glyphs[k])
          /\ Count(stderr, "Problem with instruction set")
                = Cardinality({ k \in 1..Len(glyphs) : ~WellFormed(glyphs[k]) })
    /\ Segmented => Len(glyphs) = Cardinality(Closing(instructions))
    /\ \A a, b \in Range(glyphs) :
          (a.end = None \/ b.start = None)
              => Glyph_distance_to(a, b).raised = "TypeError"
    /\ \A a, b \in Range(instructions) :
          (a.coords = None \/ b.coords = None)
              => Instruction_distance_to(a, b).raised = "TypeError"
    /\ HasLine("Initial penup distance: ")
          => PenupDefined(segment(instructions).glyphs)
    /\ HasLine("Initial total distance: ")
          => MovesDefined(segment(instructions).glyphs)
    /\ HasLine("Deduped penup distance: ") => PenupDefined(glyphs)
    /\ HasLine("Deduped total distance: ") => MovesDefined(glyphs)
    /\ HasLine("Sorted penup distance:  ") => PenupDefined(sorted_by_start(glyphs))
    /\ HasLine("Sorted total distance: ") => MovesDefined(glyphs)
    /\ HasLine("Greedy penup (i=0) ") =>
          /\ reorder_greedy(glyphs, 0).raised = ""
          /\ PenupDefined(reorder_greedy(glyphs, 0).value)
    /\ HasLine("Greedy total (i=0) ") => MovesDefined(glyphs)

\* A malformed glyph was reported, a later glyph was still made, and the
\* first statistic raised instead of being printed.
C8_Witness ==
    /\ pc = "crashed"
    /\ exc = "TypeError"
    /\ Len(glyphs) = 2
    /\ ~WellFormed(glyphs[1])
    /\ WellFormed(glyphs[2])
    /\ IsReported(glyphs[1])
    /\ HasLine("Total Glyphs: 2")
    /\ ~HasLine("Initial penup distance: ")
=============================================================================
